---------------------------- MODULE Spec2Model ----------------------------
(***************************************************************************)
(* A model of langchainjs-objectiveai: the outbound message encoder, the   *)
(* inbound response decoder, the QueryObjectiveAI chat model and the       *)
(* output parser family.                                                   *)
(*                                                                         *)
(* Text.  A JavaScript string that the program hands to JSON.parse or      *)
(* gets from JSON.stringify is modelled as the sequence of its lexemes:    *)
(* punctuation, bare words, numbers and string literals.  A string literal *)
(* carries the text of the string it denotes (escaping is modelled by      *)
(* nesting).  Numbers are fixed point: the integer n stands for n / Unit,  *)
(* so a confidence of 0.5 is 5 and a confidence of 1 is Unit.              *)
(***************************************************************************)
EXTENDS Integers, Sequences, FiniteSets, TLC

\* The number 1 of the range check "parsed.confidence <= 1", in fixed point.
Unit == 10

-----------------------------------------------------------------------------
(* Lexemes and texts *)

Punct(c) == [t |-> "punct", w |-> c, n |-> 0, s |-> <<>>]
Word(w) == [t |-> "word", w |-> w, n |-> 0, s |-> <<>>]
NumTok(n) == [t |-> "num", w |-> "", n |-> n, s |-> <<>>]
StrTok(s) == [t |-> "str", w |-> "", n |-> 0, s |-> s]

\* The text of a plain string such as "confidence" or "hello".
Plain(w) == <<Word(w)>>
EmptyText == <<>>

-----------------------------------------------------------------------------
(* JavaScript values, as far as JSON can carry them *)

Undefined == [n |-> 0, s |-> <<>>, k |-> "undefined", b |-> FALSE, keys |-> <<>>, items |-> <<>>]
Null == [n |-> 0, s |-> <<>>, k |-> "null", b |-> FALSE, keys |-> <<>>, items |-> <<>>]
BoolV(b) == [n |-> 0, s |-> <<>>, k |-> "boolean", b |-> b, keys |-> <<>>, items |-> <<>>]
NumV(n) == [n |-> n, s |-> <<>>, k |-> "number", b |-> FALSE, keys |-> <<>>, items |-> <<>>]
StrV(s) == [n |-> 0, s |-> s, k |-> "string", b |-> FALSE, keys |-> <<>>, items |-> <<>>]
ArrV(items) == [n |-> 0, s |-> <<>>, k |-> "array", b |-> FALSE, keys |-> <<>>, items |-> items]
ObjV(keys, items) == [n |-> 0, s |-> <<>>, k |-> "object", b |-> FALSE, keys |-> keys, items |-> items]

\* typeof v === "object" (null and arrays included)
TypeofObject(v) == v.k \in {"object", "array", "null"}

\* key in v, for a v that is an object or an array (no array of the model
\* has a named property)
HasKey(v, key) == v.k = "object" /\ \E i \in 1..Len(v.keys) : v.keys[i] = key

\* v[key]
Get(v, key) ==
  IF HasKey(v, key)
  THEN v.items[CHOOSE i \in 1..Len(v.keys) : v.keys[i] = key]
  ELSE Undefined

\* v[key] = x while an object literal is read: a repeated key keeps its place
\* and takes the last value
SetMember(keys, items, key, x) ==
  IF \E i \in 1..Len(keys) : keys[i] = key
  THEN [keys |-> keys,
        items |-> [i \in 1..Len(items) |-> IF keys[i] = key THEN x ELSE items[i]]]
  ELSE [keys |-> Append(keys, key), items |-> Append(items, x)]

-----------------------------------------------------------------------------
(* JSON.stringify *)

RECURSIVE Stringify(_)
RECURSIVE StringifyItems(_, _)
RECURSIVE StringifyMembers(_, _, _, _)

\* the elements of an array from index i on; undefined is written as null
StringifyItems(items, i) ==
  IF i > Len(items) THEN <<>>
  ELSE (IF i > 1 THEN <<Punct(",")>> ELSE <<>>)
       \o (IF items[i].k = "undefined" THEN <<Word("null")>> ELSE Stringify(items[i]))
       \o StringifyItems(items, i + 1)

\* the members of an object from index i on; a member whose value is
\* undefined is left out
StringifyMembers(keys, items, i, first) ==
  IF i > Len(keys) THEN <<>>
  ELSE IF items[i].k = "undefined" THEN StringifyMembers(keys, items, i + 1, first)
  ELSE (IF first THEN <<>> ELSE <<Punct(",")>>)
       \o <<StrTok(keys[i]), Punct(":")>> \o Stringify(items[i])
       \o StringifyMembers(keys, items, i + 1, FALSE)

Stringify(v) ==
  CASE v.k = "null" -> <<Word("null")>>
    [] v.k = "boolean" -> <<Word(IF v.b THEN "true" ELSE "false")>>
    [] v.k = "number" -> <<NumTok(v.n)>>
    [] v.k = "string" -> <<StrTok(v.s)>>
    [] v.k = "array" -> <<Punct("[")>> \o StringifyItems(v.items, 1) \o <<Punct("]")>>
    [] v.k = "object" ->
         <<Punct("{")>> \o StringifyMembers(v.keys, v.items, 1, TRUE) \o <<Punct("}")>>
    [] OTHER -> <<>>

JSONstringify(v) == Stringify(v)

-----------------------------------------------------------------------------
(* JSON.parse *)

ParseFail == [ok |-> FALSE, val |-> Undefined, next |-> 0]
ParseOk(v, next) == [ok |-> TRUE, val |-> v, next |-> next]

IsPunct(text, i, c) == i <= Len(text) /\ text[i].t = "punct" /\ text[i].w = c

RECURSIVE ParseValue(_, _)
RECURSIVE ParseElements(_, _, _)
RECURSIVE ParseMembers(_, _, _, _)

\* the elements of an array, the first of them at i
ParseElements(text, i, acc) ==
  LET r == ParseValue(text, i) IN
  IF ~r.ok THEN ParseFail
  ELSE IF IsPunct(text, r.next, ",") THEN ParseElements(text, r.next + 1, Append(acc, r.val))
  ELSE IF IsPunct(text, r.next, "]") THEN ParseOk(ArrV(Append(acc, r.val)), r.next + 1)
  ELSE ParseFail

\* the members of an object, the first key at i
ParseMembers(text, i, keys, items) ==
  IF ~(i <= Len(text) /\ text[i].t = "str" /\ IsPunct(text, i + 1, ":")) THEN ParseFail
  ELSE
    LET r == ParseValue(text, i + 2) IN
    IF ~r.ok THEN ParseFail
    ELSE
      LET m == SetMember(keys, items, text[i].s, r.val) IN
      IF IsPunct(text, r.next, ",") THEN ParseMembers(text, r.next + 1, m.keys, m.items)
      ELSE IF IsPunct(text, r.next, "}") THEN ParseOk(ObjV(m.keys, m.items), r.next + 1)
      ELSE ParseFail

ParseValue(text, i) ==
  IF i > Len(text) THEN ParseFail
  ELSE
    LET tok == text[i] IN
    CASE tok.t = "num" -> ParseOk(NumV(tok.n), i + 1)
      [] tok.t = "str" -> ParseOk(StrV(tok.s), i + 1)
      [] tok.t = "word" ->
           IF tok.w = "null" THEN ParseOk(Null, i + 1)
           ELSE IF tok.w = "true" THEN ParseOk(BoolV(TRUE), i + 1)
           ELSE IF tok.w = "false" THEN ParseOk(BoolV(FALSE), i + 1)
           ELSE ParseFail
      [] IsPunct(text, i, "[") ->
           IF IsPunct(text, i + 1, "]") THEN ParseOk(ArrV(<<>>), i + 2)
           ELSE ParseElements(text, i + 1, <<>>)
      [] IsPunct(text, i, "{") ->
           IF IsPunct(text, i + 1, "}") THEN ParseOk(ObjV(<<>>, <<>>), i + 2)
           ELSE ParseMembers(text, i + 1, <<>>, <<>>)
      [] OTHER -> ParseFail

\* JSON.parse(text): ok is FALSE where JSON.parse throws a SyntaxError
JSONparse(text) ==
  LET r == ParseValue(text, 1) IN
  IF r.ok /\ r.next = Len(text) + 1 THEN [ok |-> TRUE, val |-> r.val]
  ELSE [ok |-> FALSE, val |-> Undefined]


-----------------------------------------------------------------------------
(* Optional values: x | undefined, and x | null *)

Some(x) == [v |-> x, def |-> TRUE]
None(d) == [v |-> d, def |-> FALSE]

\* x ?? d
OrElse(x, d) == IF x.def THEN x.v ELSE d

-----------------------------------------------------------------------------
(* The inbound response decoder: queryCompletionResponseToBaseMessage *)

KeyConfidence == Plain("confidence")
KeyResponse == Plain("response")
KeyOutput == Plain("output")

ToolCall(name, args, id) == [name |-> name, args |-> args, id |-> id, type |-> "tool_call"]

InvalidToolCall(name, args, id) ==
  [name |-> name, args |-> args, id |-> id,
   type |-> "invalid_tool_call",
   error |-> <<Word("Failed to parse tool call args: ")>> \o args
             \o <<Word(", error: SyntaxError")>>]

RECURSIVE ToolCallsLoop(_, _, _, _)
RECURSIVE ToolCallsNext(_, _, _)
\* the turn as it would be if the catch dropped the call
ToolCallsTurnDropping(tc, args, tool_calls, invalid_tool_calls) ==
  IF args.ok
  THEN [tool_calls |-> Append(tool_calls, ToolCall(tc.function.name, args.val, tc.id)),
        invalid_tool_calls |-> invalid_tool_calls]
  ELSE [tool_calls |-> tool_calls, invalid_tool_calls |-> invalid_tool_calls]

\* one turn of the loop: args is what JSON.parse(arguments) gave for tc
ToolCallsTurn(tc, args, tool_calls, invalid_tool_calls) ==
  IF args.ok
  THEN [tool_calls |-> Append(tool_calls, ToolCall(tc.function.name, args.val, tc.id)),
        invalid_tool_calls |-> invalid_tool_calls]
  ELSE [tool_calls |-> tool_calls,
        invalid_tool_calls |->
          Append(invalid_tool_calls,
                 InvalidToolCall(tc.function.name, tc.function.arguments, tc.id))]

ToolCallsNext(tcs, i, r) == ToolCallsLoop(tcs, i + 1, r.tool_calls, r.invalid_tool_calls)

\* the for loop over message.tool_calls ?? [], from index i on
ToolCallsLoop(tcs, i, tool_calls, invalid_tool_calls) ==
  IF i > Len(tcs) THEN [tool_calls |-> tool_calls, invalid_tool_calls |-> invalid_tool_calls]
  ELSE ToolCallsNext(tcs, i,
         ToolCallsTurn(tcs[i], JSONparse(tcs[i].function.arguments),
                       tool_calls, invalid_tool_calls))

\* xs.length > 0 ? xs : undefined
NonEmptyOrUndefined(xs) == IF Len(xs) > 0 THEN Some(xs) ELSE None(<<>>)

\* the object the helper returns for the two lists r
ToolCallBuckets(r) ==
  [tool_calls |-> NonEmptyOrUndefined(r.tool_calls),
   invalid_tool_calls |-> NonEmptyOrUndefined(r.invalid_tool_calls)]

chatCompletionResponseMessageToBaseMessageToolCalls(message) ==
  ToolCallBuckets(ToolCallsLoop(OrElse(message.tool_calls, <<>>), 1, <<>>, <<>>))

\* completion.choices[0]
FirstChoice(completion) ==
  IF Len(completion.choices) > 0 THEN Some(completion.choices[1]) ELSE None(<<>>)

\* choice?.field ?? d, which the code does not write
ChoiceFieldDefaulting(choice, f, d) == IF choice.def THEN Some(choice.v[f]) ELSE Some(d)

\* choice?.field
ChoiceField(choice, f, d) == IF choice.def THEN Some(choice.v[f]) ELSE None(d)
\* choice?.completion_metadata.field
ChoiceMetaField(choice, f) ==
  IF choice.def THEN Some(choice.v.completion_metadata[f]) ELSE None("")

\* the content of the AIMessage: JSON.stringify({confidence, response})
EnvelopeContent(choice) ==
  JSONstringify(ObjV(
    <<KeyConfidence, KeyResponse>>,
    <<NumV(IF choice.def THEN OrElse(choice.v.confidence, 0) ELSE 0),
      StrV(IF choice.def THEN OrElse(choice.v.message.content, EmptyText) ELSE EmptyText)>>))

UsageMetadata(completion) ==
  IF completion.usage.def
  THEN LET u == completion.usage.v IN
       Some([input_tokens |-> u.prompt_tokens,
             output_tokens |-> u.completion_tokens,
             total_tokens |-> u.total_tokens,
             input_token_details |->
               IF u.prompt_tokens_details.def
               THEN Some([cache_read |-> u.prompt_tokens_details.v.cached_tokens])
               ELSE None([cache_read |-> 0]),
             output_token_details |->
               IF u.completion_tokens_details.def
               THEN Some([reasoning |-> u.completion_tokens_details.v.reasoning_tokens])
               ELSE None([reasoning |-> 0])])
  ELSE None(<<>>)

\* const {tool_calls, invalid_tool_calls} = choice ? helper(choice.message) : {}
ChoiceToolCalls(choice) ==
  IF choice.def
  THEN chatCompletionResponseMessageToBaseMessageToolCalls(choice.v.message)
  ELSE [tool_calls |-> None(<<>>), invalid_tool_calls |-> None(<<>>)]

\* new AIMessage({...}) for the winning choice and its tool calls
AIMessageFields(completion, choice, tcs) ==
  [id |-> completion.id,
   tool_calls |-> tcs.tool_calls,
   invalid_tool_calls |-> tcs.invalid_tool_calls,
   content |-> EnvelopeContent(choice),
   response_metadata |->
     [id |-> completion.id,
      choice |->
        [completion_metadata |->
           [id |-> ChoiceMetaField(choice, "id"),
            created |-> ChoiceMetaField(choice, "created"),
            model |-> ChoiceMetaField(choice, "model"),
            service_tier |-> ChoiceMetaField(choice, "service_tier"),
            system_fingerprint |-> ChoiceMetaField(choice, "system_fingerprint"),
            provider |-> ChoiceMetaField(choice, "provider")],
         confidence |-> IF choice.def THEN choice.v.confidence ELSE None(0),
         model |-> ChoiceField(choice, "model", ""),
         finish_reason |-> ChoiceField(choice, "finish_reason", ""),
         index |-> ChoiceField(choice, "index", 0),
         generate_id |-> ChoiceField(choice, "generate_id", ""),
         confidence_id |-> ChoiceField(choice, "confidence_id", ""),
         confidence_weight |-> ChoiceField(choice, "confidence_weight", 0),
         model_index |-> ChoiceField(choice, "model_index", 0)],
      created |-> completion.created,
      model |-> completion.model,
      service_tier |-> completion.service_tier,
      system_fingerprint |-> completion.system_fingerprint,
      choices_count |-> Len(completion.choices),
      object |-> completion.object],
   usage_metadata |-> UsageMetadata(completion)]

queryCompletionResponseToBaseMessage(completion) ==
  AIMessageFields(completion, FirstChoice(completion), ChoiceToolCalls(FirstChoice(completion)))

\* What the AIMessage constructor keeps of tool_calls / invalid_tool_calls:
\* the list, or the empty list for undefined.
Bucket(opt) == OrElse(opt, <<>>)

-----------------------------------------------------------------------------
(* The output parser family (src/src/output_parser.ts, lines 120-264) *)

EnvelopeError == [ok |-> FALSE, confidence |-> 0, output |-> EmptyText]

\* the test as it would be if any JSON object were taken as an envelope
CheckEnvelopeLenient(parsed) ==
  IF ~parsed.ok THEN EnvelopeError
  ELSE IF TypeofObject(parsed.val) /\ parsed.val.k # "null"
       THEN [ok |-> TRUE,
             confidence |-> Get(parsed.val, KeyConfidence).n,
             output |-> Get(parsed.val, KeyOutput).s]
       ELSE EnvelopeError

\* the shape test of parseObjectiveAIResponse on what JSON.parse gave
CheckEnvelope(parsed) ==
  IF ~parsed.ok THEN EnvelopeError
  ELSE IF /\ TypeofObject(parsed.val)
          /\ parsed.val.k # "null"
          /\ HasKey(parsed.val, KeyOutput)
          /\ Get(parsed.val, KeyOutput).k = "string"
          /\ HasKey(parsed.val, KeyConfidence)
          /\ Get(parsed.val, KeyConfidence).k = "number"
          /\ Get(parsed.val, KeyConfidence).n >= 0
          /\ Get(parsed.val, KeyConfidence).n <= Unit
       THEN [ok |-> TRUE,
             confidence |-> Get(parsed.val, KeyConfidence).n,
             output |-> Get(parsed.val, KeyOutput).s]
       ELSE EnvelopeError

parseObjectiveAIResponse(text) == CheckEnvelope(JSONparse(text))

Parsers == {"text", "jsonObject", "jsonSchema", "custom"}

\* the parsers that await a validation of the raw output
Validating(p) == p # "text"

\* what a parse holds or returned; output is a JavaScript value: the string of
\* the envelope, or what the validation resolved with
NoResult ==
  [error |-> "", confidence |-> 0, output |-> Undefined, status |-> "none", validated |-> FALSE]
FormatError == [NoResult EXCEPT !.status = "error", !.error = "format"]
ValidationError == [NoResult EXCEPT !.status = "error", !.error = "validation"]
\* rawOutput, while the validation of it is awaited
Pending(e) ==
  [NoResult EXCEPT !.status = "pending", !.confidence = e.confidence, !.output = StrV(e.output)]
Result(confidence, output, validated) ==
  [error |-> "", confidence |-> confidence, output |-> output, status |-> "ok",
   validated |-> validated]


-----------------------------------------------------------------------------
(* The outbound message encoder: baseMessageToChatCompletionRequestMessage *)

\* ChatMessage.isInstance / ToolMessage.isInstance: langchain decides them by
\* the message's type.
ChatMessageIsInstance(message) == message.type = "generic"
ToolMessageIsInstance(message) == message.type = "tool"

\* the literal type alone, the custom label of a generic message ignored
getMessageTypeOnly(message) == message.type

getMessageTypeOrRole(message) ==
  IF message.type = "generic" /\ ChatMessageIsInstance(message)
  THEN message.role
  ELSE message.type

\* String.prototype.toLowerCase, on a string given as its characters
LowerChar(c) ==
  CASE c = "A" -> "a" [] c = "B" -> "b" [] c = "C" -> "c" [] c = "D" -> "d"
    [] c = "E" -> "e" [] c = "F" -> "f" [] c = "G" -> "g" [] c = "H" -> "h"
    [] c = "I" -> "i" [] c = "J" -> "j" [] c = "K" -> "k" [] c = "L" -> "l"
    [] c = "M" -> "m" [] c = "N" -> "n" [] c = "O" -> "o" [] c = "P" -> "p"
    [] c = "Q" -> "q" [] c = "R" -> "r" [] c = "S" -> "s" [] c = "T" -> "t"
    [] c = "U" -> "u" [] c = "V" -> "v" [] c = "W" -> "w" [] c = "X" -> "x"
    [] c = "Y" -> "y" [] c = "Z" -> "z"
    [] OTHER -> c
toLowerCase(str) == [i \in 1..Len(str) |-> LowerChar(str[i])]

Encoded(x) == [ok |-> TRUE, val |-> x, error |-> ""]
Thrown(e) == [ok |-> FALSE, val |-> <<>>, error |-> e]

NoPart ==
  [text |-> EmptyText, type |-> "", url |-> [s |-> "", prefix |-> ""], detail |-> None(""),
   data |-> "", format |-> ""]
TextPart(text) == [NoPart EXCEPT !.type = "text", !.text = text]
ImageUrlPart(prefix, s, detail) ==
  [NoPart EXCEPT !.type = "image_url", !.url = [s |-> s, prefix |-> prefix], !.detail = detail]
InputAudioPart(data, format) ==
  [NoPart EXCEPT !.type = "input_audio", !.data = data, !.format = format]
FilePart(data) == [NoPart EXCEPT !.type = "file", !.data = data]

\* the audio branch as it would be if an unknown subtype were sent as mp3
AudioPartDefaulting(p) ==
  LET parsed == p.data.v.mime IN
  IF ~parsed.def THEN Thrown("Unsupported audio content part")
  ELSE IF ~parsed.v.valid THEN Thrown("Unsupported audio content part")
  ELSE
    LET subtype == toLowerCase(parsed.v.subtype) IN
    IF subtype = <<"w", "a", "v">> \/ subtype = <<"x", "-", "w", "a", "v">>
    THEN Encoded(InputAudioPart(p.data.v.raw, "wav"))
    ELSE Encoded(InputAudioPart(p.data.v.raw, "mp3"))

\* the audio branch: parseBase64DataUrl, parseMimeType and the format table;
\* whatever is thrown inside the try is thrown again as the audio part error
AudioPart(p) ==
  LET parsed == p.data.v.mime IN
  IF ~parsed.def THEN Thrown("Unsupported audio content part")
  ELSE IF ~parsed.v.valid THEN Thrown("Unsupported audio content part")
  ELSE
    LET subtype == toLowerCase(parsed.v.subtype) IN
    IF subtype = <<"m", "p", "e", "g">> \/ subtype = <<"m", "p", "3">>
    THEN Encoded(InputAudioPart(p.data.v.raw, "mp3"))
    ELSE IF subtype = <<"w", "a", "v">> \/ subtype = <<"x", "-", "w", "a", "v">>
    THEN Encoded(InputAudioPart(p.data.v.raw, "wav"))
    ELSE Thrown("Unsupported audio content part")

\* one turn of the loop of baseMessageContentToUserContent
UserPart(p) ==
  IF p.type = "text" /\ p.text.k = "string" THEN Encoded(TextPart(p.text.s))
  ELSE IF p.type = "image_url" /\ p.image_url.k = "string"
  THEN Encoded(ImageUrlPart("", p.image_url.s, None("")))
  ELSE IF /\ p.type = "image_url"
          /\ TypeofObject(p.image_url)
          /\ p.image_url.k # "null"
          /\ Get(p.image_url, Plain("url")).k = "string"
  THEN LET detail == Get(p.image_url, Plain("detail")) IN
       Encoded(ImageUrlPart("", Get(p.image_url, Plain("url")).s,
                            IF detail \in {StrV(Plain("auto")), StrV(Plain("low")),
                                           StrV(Plain("high"))}
                            THEN Some(detail.s[1].w) ELSE None("")))
  ELSE IF p.source_type = "url" /\ p.url.k = "string" /\ p.type = "image"
  THEN Encoded(ImageUrlPart("", p.url.s, None("")))
  ELSE IF p.source_type = "base64" /\ p.data.def /\ p.type = "image"
  THEN Encoded(ImageUrlPart("data:", p.data.v.raw, None("")))
  ELSE IF p.source_type = "base64" /\ p.data.def /\ p.type = "audio"
  THEN AudioPart(p)
  ELSE IF p.source_type = "base64" /\ p.data.def /\ p.type = "file"
  THEN Encoded(FilePart(p.data.v.raw))
  ELSE Thrown("Unsupported Human content part")

\* one turn of the loop of baseMessageContentToSimpleContent
SimplePart(p) ==
  IF p.type = "text" /\ p.text.k = "string" THEN Encoded(TextPart(p.text.s))
  ELSE Thrown("Unsupported Non-Human content part")

RECURSIVE PartsLoop(_, _, _, _)
RECURSIVE PartsNext(_, _, _, _, _)
\* the loop as it would be if a part that is not supported were left out
PartsNextDropping(content, i, parts, user, r) ==
  IF r.ok THEN PartsLoop(content, i + 1, Append(parts, r.val), user)
  ELSE PartsLoop(content, i + 1, parts, user)

\* after the turn for content[i] gave r: the part is pushed, or the error ends
\* the loop
PartsNext(content, i, parts, user, r) ==
  IF r.ok THEN PartsLoop(content, i + 1, Append(parts, r.val), user) ELSE Thrown(r.error)

\* for (const p of content), from index i on; user selects the loop body
PartsLoop(content, i, parts, user) ==
  IF i > Len(content) THEN Encoded(parts)
  ELSE PartsNext(content, i, parts, user,
                 IF user THEN UserPart(content[i]) ELSE SimplePart(content[i]))

StringContent(str) == [str |-> str, parts |-> <<>>, isString |-> TRUE]
PartsContent(parts) == [str |-> EmptyText, parts |-> parts, isString |-> FALSE]

\* return parts, or the error the loop ended with
ReturnParts(r) == IF r.ok THEN Encoded(PartsContent(r.val)) ELSE r

baseMessageContentToUserContent(content) ==
  IF content.isString THEN Encoded(content)
  ELSE ReturnParts(PartsLoop(content.parts, 1, <<>>, TRUE))

baseMessageContentToSimpleContent(content) ==
  IF content.isString THEN Encoded(content)
  ELSE ReturnParts(PartsLoop(content.parts, 1, <<>>, FALSE))

RECURSIVE Stringifiable(_)
\* JSON.stringify throws on a value that holds a reference cycle
Stringifiable(v) ==
  /\ v.k # "cyclic"
  /\ \A i \in 1..Len(v.items) : Stringifiable(v.items[i])

WireToolCall(id, name, arguments) ==
  [id |-> id, type |-> "function", function |-> [name |-> name, arguments |-> arguments]]

RECURSIVE AssistantToolCallsLoop(_, _, _)
\* for (const tc of message.tool_calls), from index i on
AssistantToolCallsLoop(tcs, i, tool_calls) ==
  IF i > Len(tcs) THEN Encoded(tool_calls)
  ELSE
    LET tc == tcs[i] IN
    IF tc.name.def /\ TypeofObject(tc.args) /\ tc.args.k # "null" /\ tc.id.def
    THEN IF Stringifiable(tc.args)
         THEN AssistantToolCallsLoop(tcs, i + 1,
                Append(tool_calls, WireToolCall(tc.id.v, tc.name.v, JSONstringify(tc.args))))
         ELSE Thrown("Failed to serialize tool call args")
    ELSE Thrown("Unsupported tool call")

\* the return as it would be if an empty list were returned as it is
ReturnToolCallsEmpty(r) == IF ~r.ok THEN r ELSE Encoded(Some(r.val))

\* if (tool_calls.length > 0) return tool_calls; return undefined
ReturnToolCalls(r) ==
  IF ~r.ok THEN r
  ELSE IF Len(r.val) > 0 THEN Encoded(Some(r.val)) ELSE Encoded(None(<<>>))

baseMessageToChatCompletionRequestMessageAssistantToolCalls(message) ==
  IF message.tool_calls.def
  THEN ReturnToolCalls(AssistantToolCallsLoop(message.tool_calls.v, 1, <<>>))
  ELSE Encoded(None(<<>>))

WireMessage(role, content, name, tool_calls, tool_call_id) ==
  [name |-> name, tool_calls |-> tool_calls, content |-> content, role |-> role,
   tool_call_id |-> tool_call_id]

\* the branches on typeOrRole; user, simple and tcs are what the content and
\* tool-call helpers give for the message, each used only in the branches
\* that call it, content before tool calls
RoleBranches(message, typeOrRole, user, simple, tcs) ==
  IF typeOrRole = "human" \/ typeOrRole = "user"
  THEN IF ~user.ok THEN user
       ELSE Encoded(WireMessage("user", user.val, message.name, None(<<>>), None("")))
  ELSE IF typeOrRole = "ai" \/ typeOrRole = "assistant"
  THEN IF ~simple.ok THEN simple
       ELSE IF ~tcs.ok THEN tcs
       ELSE Encoded(WireMessage("assistant", simple.val, message.name, tcs.val, None("")))
  ELSE IF typeOrRole = "developer"
  THEN IF ~simple.ok THEN simple
       ELSE Encoded(WireMessage("developer", simple.val, message.name, None(<<>>), None("")))
  ELSE IF typeOrRole = "system"
  THEN IF ~simple.ok THEN simple
       ELSE Encoded(WireMessage("system", simple.val, message.name, None(<<>>), None("")))
  ELSE IF typeOrRole = "tool" /\ ToolMessageIsInstance(message)
  THEN IF ~simple.ok THEN simple
       ELSE Encoded(WireMessage("tool", simple.val, None(""), None(<<>>), message.tool_call_id))
  ELSE Thrown("Unsupported message")

baseMessageToChatCompletionRequestMessage(message) ==
  RoleBranches(message, getMessageTypeOrRole(message),
               baseMessageContentToUserContent(message.content),
               baseMessageContentToSimpleContent(message.content),
               baseMessageToChatCompletionRequestMessageAssistantToolCalls(message))

-----------------------------------------------------------------------------
(* The chat model: QueryObjectiveAI *)

\* A parameter object is a record of its keys' values; "absent" marks a key
\* the object does not have, "undefined" a key it has with the value
\* undefined.
Params(model, stream, stream_options, temperature) ==
  [model |-> model, stream |-> stream, stream_options |-> stream_options,
   temperature |-> temperature]

\* one turn of the loop of invocationParams over Object.entries(call): the
\* value of a key after it
Override(baseValue, callValue) ==
  IF callValue # "absent" /\ callValue # "undefined" THEN callValue ELSE baseValue

OverrideParams(base, call) ==
  Params(Override(base.model, call.model),
         Override(base.stream, call.stream),
         Override(base.stream_options, call.stream_options),
         Override(base.temperature, call.temperature))

invocationParams(self, options) ==
  LET base == self.chat_completion_create_params
      merged == IF options.def /\ options.v.chat_completion_create_params.def
                THEN OverrideParams(base, options.v.chat_completion_create_params.v)
                ELSE base
  IN [chat_completion_create_params |->
        IF self.disableStreaming
        THEN [merged EXCEPT !.stream = "false", !.stream_options = "undefined"]
        ELSE merged,
      openai |-> self.openai]

\* the stored parameters as they would be if the loop wrote to the object's
\* own parameters and not to a copy of them
StoredParamsAliased(self, options) ==
  invocationParams(self, options).chat_completion_create_params

\* this.chat_completion_create_params after invocationParams(options): the
\* loop and the disableStreaming override write to the spread copy
StoredParams(self, options) == self.chat_completion_create_params

RECURSIVE MapLoop(_, _, _)
RECURSIVE MapNext(_, _, _, _)
\* the map as it would be if a message that fails to encode were left out
MapNextSkipping(msgs, i, acc, r) ==
  IF r.ok THEN MapLoop(msgs, i + 1, Append(acc, r.val)) ELSE MapLoop(msgs, i + 1, acc)

\* after the callback gave r for msgs[i]
MapNext(msgs, i, acc, r) ==
  IF r.ok THEN MapLoop(msgs, i + 1, Append(acc, r.val)) ELSE Thrown(r.error)

\* messages.map(baseMessageToChatCompletionRequestMessage), from index i on:
\* the first message that fails ends the map
MapLoop(msgs, i, acc) ==
  IF i > Len(msgs) THEN Encoded(acc)
  ELSE MapNext(msgs, i, acc, baseMessageToChatCompletionRequestMessage(msgs[i]))

MapMessages(msgs) == MapLoop(msgs, 1, <<>>)

\* the stream member as it would be without the stream: false of _generate
RequestStreamOfBase(base) == base.stream

\* the stream member of chatCompletionCreateParams
RequestStream(base) == "false"

\* chatCompletionCreateParams: {...base, messages, stream: false}
ChatCompletionCreateParams(base, wireMessages) ==
  [params |-> [base EXCEPT !.stream = RequestStream(base)],
   messages |-> wireMessages]

\* the third argument of Query.Completions.create
TransportOptions(options) ==
  [timeout |-> IF options.def THEN options.v.timeout ELSE None(0),
   signal |-> IF options.def THEN options.v.signal ELSE None("")]

TokenUsage(completion) ==
  IF completion.usage.def
  THEN Some([promptTokens |-> completion.usage.v.prompt_tokens,
             completionTokens |-> completion.usage.v.completion_tokens,
             totalTokens |-> completion.usage.v.total_tokens,
             cost |-> completion.usage.v.cost])
  ELSE None(<<>>)

\* the ChatResult of _generate
ChatResult(completion, baseMessage) ==
  [text |-> baseMessage.content, error |-> "", status |-> "ok",
   generationInfo |->
     [id |-> completion.id, created |-> completion.created,
      model |-> completion.model, service_tier |-> completion.service_tier,
      system_fingerprint |-> completion.system_fingerprint,
      choices_count |-> Len(completion.choices), object |-> completion.object],
   tokenUsage |-> TokenUsage(completion)]


-----------------------------------------------------------------------------
(* Bounds and the inputs the operations are called with *)

MaxParts == 2       \* content parts of a message
MaxToolCalls == 2   \* tool calls of a message or of a choice
MaxChoices == 2     \* choices of a response
MaxMessages == 2    \* messages of a batch
MaxRanked == 2      \* elements of an array envelope

SeqsUpTo(S, n) == UNION {[1..k -> S] : k \in 0..n}

\* texts of strings
Hello == Plain("hello")
ObjectText == <<Punct("{"), StrTok(Plain("a")), Punct(":"), NumTok(1), Punct("}")>>
EmptyObjectText == <<Punct("{"), Punct("}")>>
TruncatedText == <<Punct("{"), StrTok(Plain("a")), Punct(":")>>
NotJsonText == <<Word("not"), Word("json")>>
NumberText == <<NumTok(5)>>

(* messages *)

DataUrl(raw, valid, subtype) ==
  Some([mime |-> Some([type |-> "audio", valid |-> valid, subtype |-> subtype]), raw |-> raw])
OpaqueData(raw) ==
  Some([mime |-> None([type |-> "", valid |-> FALSE, subtype |-> <<>>]), raw |-> raw])
NoData == None([mime |-> None([type |-> "", valid |-> FALSE, subtype |-> <<>>]), raw |-> ""])

InPart(type, text, image_url, source_type, url, data) ==
  [text |-> text, type |-> type, url |-> url, data |-> data,
   image_url |-> image_url, source_type |-> source_type]

TextParts ==
  {InPart("text", StrV(Hello), Undefined, "", Undefined, NoData),
   InPart("text", StrV(ObjectText), Undefined, "", Undefined, NoData)}

OtherSimpleParts ==
  {InPart("text", Undefined, Undefined, "", Undefined, NoData),
   InPart("image_url", Undefined, StrV(Plain("http://img")), "", Undefined, NoData),
   InPart("file", Undefined, Undefined, "base64", Undefined, OpaqueData("data:application/pdf")),
   InPart("audio", Undefined, Undefined, "base64", Undefined,
          DataUrl("data:audio", TRUE, <<"m", "p", "e", "g">>))}

AudioSubtypes ==
  {<<"m", "p", "e", "g">>, <<"M", "P", "3">>, <<"w", "a", "v">>, <<"X", "-", "W", "a", "v">>,
   <<"o", "g", "g">>, <<"m", "p", "4">>, <<"F", "L", "A", "C">>}

AudioParts ==
  {InPart("audio", Undefined, Undefined, "base64", Undefined, DataUrl("data:audio", TRUE, st)) :
     st \in AudioSubtypes}
  \cup {InPart("audio", Undefined, Undefined, "base64", Undefined, OpaqueData("not a data url")),
        InPart("audio", Undefined, Undefined, "base64", Undefined,
               DataUrl("data:audio", FALSE, <<>>))}

MediaParts ==
  {InPart("image_url", Undefined,
          ObjV(<<Plain("url"), Plain("detail")>>, <<StrV(Plain("http://img")), StrV(Plain("low"))>>),
          "", Undefined, NoData),
   InPart("image_url", Undefined,
          ObjV(<<Plain("url"), Plain("detail")>>, <<StrV(Plain("http://img")), StrV(Plain("huge"))>>),
          "", Undefined, NoData),
   InPart("image_url", Undefined, ObjV(<<Plain("detail")>>, <<StrV(Plain("low"))>>),
          "", Undefined, NoData),
   InPart("image", Undefined, Undefined, "url", StrV(Plain("http://img")), NoData),
   InPart("image", Undefined, Undefined, "base64", Undefined, OpaqueData("image/png;base64,AAAA")),
   InPart("file", Undefined, Undefined, "base64", Undefined, OpaqueData("data:application/pdf")),
   InPart("video", Undefined, Undefined, "base64", Undefined, OpaqueData("data:video/mp4")),
   InPart("audio", Undefined, Undefined, "url", StrV(Plain("http://audio")), NoData)}

SimpleParts == TextParts \cup OtherSimpleParts
UserParts == SimpleParts \cup MediaParts \cup AudioParts

Content(parts) == [str |-> EmptyText, parts |-> parts, isString |-> FALSE]
StringContents == {StringContent(Hello), StringContent(EmptyText)}
SimpleContents == StringContents \cup {Content(ps) : ps \in SeqsUpTo(SimpleParts, MaxParts)}
UserContents == StringContents \cup {Content(ps) : ps \in SeqsUpTo(UserParts, MaxParts)}

\* a member that refers back to the object that holds it
CyclicV == [n |-> 0, s |-> <<>>, k |-> "cyclic", b |-> FALSE, keys |-> <<>>, items |-> <<>>]

InToolCall(name, args, id) == [name |-> name, args |-> args, id |-> id]
MessageToolCalls ==
  {InToolCall(Some("f"), ObjV(<<Plain("a")>>, <<NumV(1)>>), Some("call_1")),
   InToolCall(Some("g"), ObjV(<<>>, <<>>), Some("call_2")),
   InToolCall(Some("h"), ObjV(<<Plain("a"), Plain("b")>>, <<Undefined, StrV(Hello)>>), Some("call_3")),
   InToolCall(Some("f"), ArrV(<<NumV(1)>>), Some("call_4")),
   InToolCall(Some("f"), ObjV(<<>>, <<>>), None("")),
   InToolCall(Some("f"), Null, Some("call_5")),
   InToolCall(Some("f"), ObjV(<<Plain("self")>>, <<CyclicV>>), Some("call_6"))}

Message(type, role, content, name, tool_calls, tool_call_id) ==
  [name |-> name, type |-> type, tool_calls |-> tool_calls, content |-> content,
   role |-> role, tool_call_id |-> tool_call_id]

LiteralTypes == {"human", "ai", "system", "developer", "tool", "function", "remove"}
CustomRoles == {"user", "human", "assistant", "ai", "system", "developer", "tool", "moderator"}

\* A message as langchain builds it: only a generic message has a role, only
\* an AI message has a list of tool calls, only a tool message has a
\* tool_call_id.
MessageOf(type, role, content) ==
  Message(type, role, content,
          IF content.isString THEN Some("alice") ELSE None(""),
          IF type = "ai" THEN Some(<<>>) ELSE None(<<>>),
          IF type = "tool" THEN Some("call_1") ELSE None(""))

Messages ==
  {MessageOf("human", "", c) : c \in UserContents}
  \cup {MessageOf(t, "", c) : t \in LiteralTypes, c \in SimpleContents}
  \cup {MessageOf("generic", r, c) : r \in CustomRoles, c \in SimpleContents}
  \cup {[MessageOf("ai", "", StringContent(Hello)) EXCEPT !.tool_calls = Some(tcs)] :
          tcs \in SeqsUpTo(MessageToolCalls, MaxToolCalls)}
  \cup {[MessageOf("ai", "", Content(<<p>>)) EXCEPT !.tool_calls = Some(<<tc>>)] :
          p \in SimpleParts, tc \in MessageToolCalls}

BatchMessages ==
  {MessageOf("human", "", StringContent(Hello)),
   MessageOf("system", "", Content(<<CHOOSE p \in TextParts : p.text = StrV(Hello)>>)),
   MessageOf("generic", "moderator", StringContent(Hello)),
   MessageOf("human", "", Content(<<CHOOSE p \in AudioParts :
                                      p.data.v.mime.def /\ p.data.v.mime.v.subtype = <<"o", "g", "g">>>>))}

Batches == SeqsUpTo(BatchMessages, MaxMessages)

(* responses *)

InWireToolCall(id, name, arguments) == WireToolCall(id, name, arguments)
ResponseToolCalls ==
  {InWireToolCall("call_1", "f", ObjectText),
   InWireToolCall("call_2", "g", EmptyObjectText),
   InWireToolCall("call_3", "h", TruncatedText),
   InWireToolCall("call_4", "f", NotJsonText),
   InWireToolCall("call_5", "g", NumberText),
   InWireToolCall("call_6", "h", EmptyText)}

Choice(index, confidence, content, tool_calls) ==
  [message |-> [tool_calls |-> tool_calls, content |-> content],
   completion_metadata |->
     [id |-> "meta", created |-> "t0", model |-> "model_a", service_tier |-> "default",
      system_fingerprint |-> "fp", provider |-> "p"],
   confidence |-> Some(confidence),
   model |-> "model_a",
   finish_reason |-> IF tool_calls.def THEN "tool_calls" ELSE "stop",
   index |-> index, generate_id |-> "gen", confidence_id |-> "conf",
   confidence_weight |-> Unit, model_index |-> 0]

Confidences == {0, 5, Unit}
ChoiceContents == {Some(Hello), Some(EmptyText), Some(ObjectText), None(EmptyText)}

ContentChoices ==
  {Choice(0, c, t, None(<<>>)) : c \in Confidences, t \in ChoiceContents}
ToolChoices ==
  {Choice(0, 5, None(EmptyText), Some(tcs)) : tcs \in SeqsUpTo(ResponseToolCalls, MaxToolCalls)}
OtherChoices == {Choice(1, 0, Some(Plain("other")), None(<<>>)), Choice(1, 5, Some(Hello), None(<<>>))}

NoUsage ==
  None([prompt_tokens |-> 0, completion_tokens |-> 0, total_tokens |-> 0,
        prompt_tokens_details |-> None([cached_tokens |-> 0]),
        completion_tokens_details |-> None([reasoning_tokens |-> 0]),
        cost |-> 0])
Usages ==
  {NoUsage,
   Some([prompt_tokens |-> 3, completion_tokens |-> 4, total_tokens |-> 7,
         prompt_tokens_details |-> None([cached_tokens |-> 0]),
         completion_tokens_details |-> None([reasoning_tokens |-> 0]),
         cost |-> 1]),
   Some([prompt_tokens |-> 3, completion_tokens |-> 4, total_tokens |-> 7,
         prompt_tokens_details |-> Some([cached_tokens |-> 2]),
         completion_tokens_details |-> Some([reasoning_tokens |-> 1]),
         cost |-> 1])}

Completion(choices, usage) ==
  [id |-> "cmpl", choices |-> choices, usage |-> usage, created |-> "t1",
   model |-> "model_q", service_tier |-> Some("default"),
   system_fingerprint |-> None(""), object |-> "chat.completion"]

Completions ==
  {Completion(<<>>, u) : u \in Usages}
  \cup {Completion(<<w>> \o rest, NoUsage) :
          w \in ContentChoices, rest \in SeqsUpTo(OtherChoices, MaxChoices - 1)}
  \cup {Completion(<<w>>, u) : w \in ToolChoices, u \in Usages \ {NoUsage}}

\* the completions the transport answers a request with: those of at most one
\* choice, of confidence 0.5, with at most one tool call
Answers ==
  {c \in Completions :
     \/ Len(c.choices) = 0
     \/ /\ Len(c.choices) = 1
        /\ c.choices[1].confidence.v = 5
        /\ Len(OrElse(c.choices[1].message.tool_calls, <<>>)) <= 1}

(* envelope texts *)

EnvelopeConfidences ==
  {Undefined, NumV(0), NumV(5), NumV(Unit), NumV(Unit + 5), NumV(-1), StrV(Plain("high")), Null}
EnvelopeOutputs == {Undefined, StrV(EmptyText), StrV(Hello), StrV(ObjectText), NumV(7), Null}

EnvelopeObjects ==
  {ObjV(<<KeyConfidence, key>>, <<c, o>>) :
     c \in EnvelopeConfidences, o \in EnvelopeOutputs, key \in {KeyOutput, KeyResponse}}
  \cup {ObjV(<<KeyOutput, Plain("extra"), KeyConfidence>>, <<StrV(Hello), Null, NumV(5)>>)}

\* the elements of a ranked envelope: well formed, by descending confidence
RankedElements ==
  {ObjV(<<KeyConfidence, KeyOutput>>, <<NumV(c), StrV(o)>>) :
     c \in Confidences, o \in {Hello, ObjectText}}
NonIncreasing(xs) ==
  \A i \in 1..Len(xs) : \A j \in i..Len(xs) :
     Get(xs[i], KeyConfidence).n >= Get(xs[j], KeyConfidence).n
RankedEnvelopes ==
  {ArrV(xs) : xs \in {ys \in SeqsUpTo(RankedElements, MaxRanked) : Len(ys) > 0 /\ NonIncreasing(ys)}}

ParserInputs ==
  {JSONstringify(v) : v \in EnvelopeObjects \cup RankedEnvelopes}
  \cup {NotJsonText, TruncatedText, NumberText, EmptyText, <<Word("null")>>, <<StrTok(Hello)>>,
        <<Punct("["), Punct("]")>>}

(* the chat model's parameters *)

ConstructorParams ==
  {Params("model_q", "absent", "absent", "0.5"),
   Params("model_q", "true", "include_usage", "absent"),
   Params("model_q", "false", "absent", "0.5")}

CallParams ==
  {Params(m, s, so, "absent") :
     m \in {"absent", "model_r"}, s \in {"absent", "undefined", "null", "true"},
     so \in {"absent", "include_usage"}}
  \cup {Params("absent", "absent", "absent", t) : t \in {"undefined", "null", "0.9"}}

CallOptions(params, timeout) ==
  Some([chat_completion_create_params |-> params, timeout |-> timeout, signal |-> None("")])
NoParams == None(Params("absent", "absent", "absent", "absent"))
NoOptions ==
  None([chat_completion_create_params |-> NoParams, timeout |-> None(0), signal |-> None("")])

Options ==
  {NoOptions, CallOptions(NoParams, None(0)), CallOptions(NoParams, Some(30))}
  \cup {CallOptions(Some(p), None(0)) : p \in CallParams}


-----------------------------------------------------------------------------
(* The state machine: one call at a time, from its start to its return *)

VARIABLES
  this,         \* the QueryObjectiveAI object: its fields after construction
  pc,           \* "idle", or where the running call waits: "transport", "validating"
  op,           \* the operation called last
  messages,     \* the messages of the running encode / _generate call
  options,      \* the options of the running invocationParams / _generate call
  invocation,   \* what invocationParams returned
  wire,         \* what baseMessageToChatCompletionRequestMessage returned or threw
  request,      \* what _generate handed to Query.Completions.create
  generated,    \* what _generate returned or threw
  completion,   \* the response decoded last
  answer,       \* the AIMessage queryCompletionResponseToBaseMessage built from it
  parser,       \* the parser of the running parse call
  text,         \* its text
  fromAnswer,   \* whether that text is the content of answer
  parsed,       \* what parse returned or threw
  validations,  \* how many times the running parse called its validator
  validation    \* what the validator answered: "none", "pending", "resolved", "rejected"

vars ==
  <<this, pc, op, messages, options, invocation, wire, request, generated, completion, answer,
    parser, text, fromAnswer, parsed, validations, validation>>

NoInvocation ==
  None([chat_completion_create_params |-> Params("absent", "absent", "absent", "absent"),
        openai |-> ""])
NoWire == [val |-> <<>>, error |-> "", status |-> "none"]
NoRequest ==
  [error |-> "", options |-> TransportOptions(NoOptions),
   params |-> Params("absent", "absent", "absent", "absent"), messages |-> <<>>, sent |-> FALSE]
NoGenerated ==
  [text |-> EmptyText, error |-> "", status |-> "none", generationInfo |-> <<>>,
   tokenUsage |-> None(<<>>)]
GenerateError(e) == [NoGenerated EXCEPT !.status = "error", !.error = e]
NoCompletion == None(Completion(<<>>, NoUsage))
NoAnswer == None(<<>>)

\* no call of the chat model is under way or has just returned
NoModelCall ==
  /\ messages' = <<>>
  /\ options' = NoOptions
  /\ invocation' = NoInvocation
  /\ wire' = NoWire
  /\ request' = NoRequest
  /\ generated' = NoGenerated

NoDecode == completion' = NoCompletion /\ answer' = NoAnswer

NoParse ==
  /\ parser' = ""
  /\ text' = EmptyText
  /\ fromAnswer' = FALSE
  /\ parsed' = NoResult
  /\ validations' = 0
  /\ validation' = "none"

Init ==
  /\ this \in {[chat_completion_create_params |-> p, disableStreaming |-> d,
                openai |-> "client options"] : p \in ConstructorParams, d \in BOOLEAN}
  /\ pc = "idle"
  /\ op = "new"
  /\ messages = <<>>
  /\ options = NoOptions
  /\ invocation = NoInvocation
  /\ wire = NoWire
  /\ request = NoRequest
  /\ generated = NoGenerated
  /\ completion = NoCompletion
  /\ answer = NoAnswer
  /\ parser = ""
  /\ text = EmptyText
  /\ fromAnswer = FALSE
  /\ parsed = NoResult
  /\ validations = 0
  /\ validation = "none"

\* a call starts when the caller has taken the result of the one before
Ready == pc = "idle" /\ op = "new"

EncodeStep(message, r) ==
  /\ Ready
  /\ op' = "encode"
  /\ messages' = <<message>>
  /\ wire' = [val |-> r.val, error |-> r.error, status |-> IF r.ok THEN "ok" ELSE "error"]
  /\ options' = NoOptions /\ invocation' = NoInvocation
  /\ request' = NoRequest /\ generated' = NoGenerated
  /\ NoDecode /\ NoParse
  /\ UNCHANGED <<this, pc>>

\* baseMessageToChatCompletionRequestMessage(message)
Encode(message) == EncodeStep(message, baseMessageToChatCompletionRequestMessage(message))

\* queryCompletionResponseToBaseMessage(completion)
Decode(c) ==
  /\ Ready
  /\ op' = "decode"
  /\ completion' = Some(c)
  /\ answer' = Some(queryCompletionResponseToBaseMessage(c))
  /\ NoModelCall /\ NoParse
  /\ UNCHANGED <<this, pc>>

\* this.invocationParams(options)
InvocationParams(o) ==
  /\ Ready
  /\ op' = "invocationParams"
  /\ options' = o
  /\ invocation' = Some(invocationParams(this, o))
  /\ this' = [this EXCEPT !.chat_completion_create_params = StoredParams(this, o)]
  /\ messages' = <<>> /\ wire' = NoWire /\ request' = NoRequest /\ generated' = NoGenerated
  /\ NoDecode /\ NoParse
  /\ UNCHANGED pc

\* the request _generate hands to the transport, or the error of the message
\* that could not be encoded
RequestOrError(base, mapped, o) ==
  IF mapped.ok
  THEN [error |-> "",
        options |-> TransportOptions(o),
        params |-> ChatCompletionCreateParams(base, mapped.val).params,
        messages |-> ChatCompletionCreateParams(base, mapped.val).messages,
        sent |-> TRUE]
  ELSE [NoRequest EXCEPT !.error = mapped.error]

\* _generate up to its await
GenerateRequest(self, ms, o) ==
  RequestOrError(invocationParams(self, o).chat_completion_create_params, MapMessages(ms), o)

GenerateStep(ms, o, r) ==
  /\ Ready
  /\ op' = "_generate"
  /\ messages' = ms
  /\ options' = o
  /\ invocation' = Some(invocationParams(this, o))
  /\ wire' = NoWire
  /\ request' = r
  /\ generated' = IF r.sent THEN [NoGenerated EXCEPT !.status = "pending"]
                  ELSE GenerateError(r.error)
  /\ pc' = IF r.sent THEN "transport" ELSE "idle"
  /\ this' = [this EXCEPT !.chat_completion_create_params = StoredParams(this, o)]
  /\ NoDecode /\ NoParse

\* this._generate(messages, options), up to the await of the transport
Generate(ms, o) == GenerateStep(ms, o, GenerateRequest(this, ms, o))

\* the return of _generate for the completion c, decoded as baseMessage
GenerateReturn(c, baseMessage) ==
  /\ pc = "transport"
  /\ pc' = "idle"
  /\ completion' = Some(c)
  /\ answer' = Some(baseMessage)
  /\ generated' = ChatResult(c, baseMessage)
  /\ messages' = <<>> /\ options' = NoOptions /\ invocation' = NoInvocation
  /\ wire' = NoWire /\ request' = NoRequest
  /\ NoParse
  /\ UNCHANGED <<this, op>>

\* Query.Completions.create resolves with a completion: _generate decodes it
\* and returns
TransportResolves(c) == GenerateReturn(c, queryCompletionResponseToBaseMessage(c))

\* Query.Completions.create rejects: so does _generate
TransportRejects ==
  /\ pc = "transport"
  /\ pc' = "idle"
  /\ generated' = GenerateError("transport")
  /\ messages' = <<>> /\ options' = NoOptions /\ invocation' = NoInvocation
  /\ wire' = NoWire /\ request' = NoRequest
  /\ NoDecode /\ NoParse
  /\ UNCHANGED <<this, op>>

\* parser.parse(text), up to the await of the validation (the text parser has
\* none and returns at once)
ParseStep(p, t, e) ==
  /\ parser' = p
  /\ text' = t
  /\ parsed' = IF ~e.ok THEN FormatError
               ELSE IF Validating(p) THEN Pending(e)
               ELSE Result(e.confidence, StrV(e.output), FALSE)
  /\ validations' = IF e.ok /\ Validating(p) THEN 1 ELSE 0
  /\ validation' = IF e.ok /\ Validating(p) THEN "pending" ELSE "none"
  /\ pc' = IF e.ok /\ Validating(p) THEN "validating" ELSE "idle"

ParseCall(p, t) == ParseStep(p, t, parseObjectiveAIResponse(t))

\* parse of a text the caller supplies
Parse(p, t) ==
  /\ Ready
  /\ op' = "parse"
  /\ ParseCall(p, t)
  /\ fromAnswer' = FALSE
  /\ NoModelCall /\ NoDecode
  /\ UNCHANGED this

\* parse of the content of the AIMessage decoded last
ParseAnswer(p) ==
  /\ pc = "idle"
  /\ answer.def
  /\ ~fromAnswer
  /\ op' = "parse"
  /\ ParseCall(p, answer.v.content)
  /\ fromAnswer' = TRUE
  /\ NoModelCall
  /\ UNCHANGED <<this, completion, answer>>

\* what the validation of rawOutput can resolve with: the text it was given,
\* another string, the value the text is JSON for, or some other object
ValidatorResults(rawOutput) ==
  {rawOutput, StrV(Plain("validated")), ObjV(<<Plain("parsedFrom")>>, <<rawOutput>>)}
  \cup (IF JSONparse(rawOutput.s).ok THEN {JSONparse(rawOutput.s).val} ELSE {})

\* the validator resolves with output: parse returns {confidence, output}
ValidationResolves(output) ==
  /\ pc = "validating"
  /\ pc' = "idle"
  /\ parsed' = Result(parsed.confidence, output, TRUE)
  /\ validation' = "resolved"
  /\ UNCHANGED <<this, op, messages, options, invocation, wire, request, generated,
                 completion, answer, parser, text, fromAnswer, validations>>

\* the awaited validation of rawOutput resolves, with any of its results
ValidationReturns ==
  pc = "validating" /\ \E output \in ValidatorResults(parsed.output) : ValidationResolves(output)

\* the validator rejects: so does parse
ValidationRejects ==
  /\ pc = "validating"
  /\ pc' = "idle"
  /\ parsed' = ValidationError
  /\ validation' = "rejected"
  /\ UNCHANGED <<this, op, messages, options, invocation, wire, request, generated,
                 completion, answer, parser, text, fromAnswer, validations>>

\* the completion of a provider that answers with the tool calls it was sent
EchoCompletion(tool_calls) ==
  Completion(<<Choice(0, 5, None(EmptyText), Some(tool_calls))>>, NoUsage)

DecodeEchoStep(c) ==
  /\ op' = "decodeEcho"
  /\ completion' = Some(c)
  /\ answer' = Some(queryCompletionResponseToBaseMessage(c))
  /\ UNCHANGED <<this, pc, messages, options, invocation, wire, request, generated,
                 parser, text, fromAnswer, parsed, validations, validation>>

\* queryCompletionResponseToBaseMessage on a response whose winning choice
\* carries the wire tool calls of the assistant message encoded last
DecodeEcho ==
  /\ pc = "idle"
  /\ op = "encode"
  /\ wire.status = "ok"
  /\ wire.val.tool_calls.def
  /\ DecodeEchoStep(EchoCompletion(wire.val.tool_calls.v))

\* the caller takes the result of the call that returned or threw; nothing
\* of the call is kept but the object
Return ==
  /\ pc = "idle"
  /\ op # "new"
  /\ op' = "new"
  /\ NoModelCall /\ NoDecode /\ NoParse
  /\ UNCHANGED <<this, pc>>

\* the calls a caller makes on the idle object, with each input
EncodeCall == Ready /\ \E m \in Messages : Encode(m)
DecodeCall == Ready /\ \E c \in Completions : Decode(c)
InvocationParamsCall == Ready /\ \E o \in Options : InvocationParams(o)
GenerateCall == Ready /\ \E ms \in Batches, o \in Options : Generate(ms, o)
ParseTextCall == Ready /\ \E p \in Parsers, t \in ParserInputs : Parse(p, t)

Next ==
  \/ EncodeCall
  \/ DecodeCall
  \/ InvocationParamsCall
  \/ GenerateCall
  \/ \E c \in Answers : TransportResolves(c)
  \/ TransportRejects
  \/ ParseTextCall
  \/ \E p \in Parsers : ParseAnswer(p)
  \/ DecodeEcho
  \/ ValidationReturns
  \/ ValidationRejects
  \/ Return

Spec == Init /\ [][Next]_vars


-----------------------------------------------------------------------------
(* Properties *)

\* the winning choice of the response decoded last
Winner == completion.v.choices[1]
Decoded == answer.def /\ completion.def
ParseDone == op = "parse" /\ pc = "idle"

\* C1: the content of the AIMessage decoded from a response with at least one
\* choice is accepted by the text parser, and the parsed confidence and output
\* are those of choices[0], whatever the other choices are.
C1_DecodeThenParse ==
  (ParseDone /\ fromAnswer /\ parser = "text" /\ Len(completion.v.choices) >= 1)
    => /\ parsed.status = "ok"
       /\ parsed.confidence = OrElse(Winner.confidence, 0)
       /\ parsed.output = StrV(OrElse(Winner.message.content, EmptyText))

\* the texts that are an array of well-formed {confidence, output} elements
RankedTexts == {JSONstringify(v) : v \in RankedEnvelopes}
\* the elements of the array envelope parsed
RankedInput == JSONparse(text).val.items

\* C2: the parse of an array envelope of well-formed elements fails only when
\* the validation of element 0 failed; a failure elsewhere leaves it a success.
C2_AsymmetricFailure ==
  (ParseDone /\ text \in RankedTexts /\ parsed.status = "error")
    => (validations >= 1 /\ parsed.error = "validation")

\* the list a parse returned: in the code, the one {confidence, output} of a
\* successful parse
Returned ==
  IF parsed.status = "ok"
  THEN <<ObjV(<<KeyConfidence, KeyOutput>>, <<NumV(parsed.confidence), parsed.output>>)>>
  ELSE <<>>

\* xs is a subsequence of ys: its elements are elements of ys, in the order of ys
IsSubsequence(xs, ys) ==
  \E f \in [1..Len(xs) -> 1..Len(ys)] :
    /\ \A i \in 1..Len(xs) : xs[i] = ys[f[i]]
    /\ \A i \in 1..Len(xs) : \A j \in 1..Len(xs) : i < j => f[i] < f[j]

\* C3: the parse of a well-formed ranked envelope whose first element
\* validates returns a list that is a subsequence of the input elements, in
\* their order, with a non-increasing confidence sequence.
C3_OrderPreserved ==
  (ParseDone /\ text \in RankedTexts /\ validation # "rejected")
    => /\ parsed.status = "ok"
       /\ IsSubsequence(Returned, RankedInput)
       /\ NonIncreasing(Returned)

\* the tool calls of the winning choice
WinnerToolCalls == OrElse(Winner.message.tool_calls, <<>>)
ArgumentsParse(tc) == JSONparse(tc.function.arguments).ok
ArgumentsFail(tc) == ~JSONparse(tc.function.arguments).ok
SameCall(out, tc) == out.id = tc.id /\ out.name = tc.function.name

\* C4: every tool call of the winning choice is in exactly one bucket: in
\* tool_calls with its parsed arguments when they parse as JSON, in
\* invalid_tool_calls with its raw arguments and an error otherwise; each
\* bucket keeps the order of the response.
C4_ToolCallRecovery ==
  (Decoded /\ Len(completion.v.choices) >= 1)
    => LET valid == SelectSeq(WinnerToolCalls, ArgumentsParse)
           invalid == SelectSeq(WinnerToolCalls, ArgumentsFail)
           tool_calls == Bucket(answer.v.tool_calls)
           invalid_tool_calls == Bucket(answer.v.invalid_tool_calls)
       IN /\ Len(tool_calls) + Len(invalid_tool_calls) = Len(WinnerToolCalls)
          /\ Len(tool_calls) = Len(valid)
          /\ Len(invalid_tool_calls) = Len(invalid)
          /\ \A i \in 1..Len(tool_calls) :
               /\ SameCall(tool_calls[i], valid[i])
               /\ tool_calls[i].args = JSONparse(valid[i].function.arguments).val
               /\ tool_calls[i].type = "tool_call"
          /\ \A i \in 1..Len(invalid_tool_calls) :
               /\ SameCall(invalid_tool_calls[i], invalid[i])
               /\ invalid_tool_calls[i].args = invalid[i].function.arguments
               /\ invalid_tool_calls[i].error # EmptyText
               /\ invalid_tool_calls[i].type = "invalid_tool_call"

C4_Witness ==
  /\ op = "decode" /\ Decoded
  /\ Len(completion.v.choices) >= 1
  /\ Len(WinnerToolCalls) = 2
  /\ ArgumentsFail(WinnerToolCalls[1])
  /\ ArgumentsParse(WinnerToolCalls[2])
  /\ Len(Bucket(answer.v.tool_calls)) = 1
  /\ Len(Bucket(answer.v.invalid_tool_calls)) = 1

\* C5: a response without choices decodes to an AIMessage whose envelope holds
\* the confidence 0 and the empty string, without tool calls of either kind,
\* with every per-choice metadata field undefined and choices_count 0.
C5_EmptyChoices ==
  (Decoded /\ Len(completion.v.choices) = 0)
    => LET envelope == JSONparse(answer.v.content)
           meta == answer.v.response_metadata
       IN /\ envelope.ok
          /\ envelope.val.k = "object"
          /\ Len(envelope.val.keys) = 2
          /\ Get(envelope.val, KeyConfidence) = NumV(0)
          /\ \E i \in 1..2 : /\ envelope.val.keys[i] # KeyConfidence
                             /\ envelope.val.items[i] = StrV(EmptyText)
          /\ Bucket(answer.v.tool_calls) = <<>>
          /\ Bucket(answer.v.invalid_tool_calls) = <<>>
          /\ meta.choices_count = 0
          /\ \A f \in {"finish_reason", "index", "generate_id", "confidence_id",
                       "confidence_weight", "confidence", "model", "model_index"} :
               ~meta.choice[f].def
          /\ \A f \in {"id", "created", "model", "service_tier", "system_fingerprint",
                       "provider"} :
               ~meta.choice.completion_metadata[f].def

C5_Witness ==
  /\ op = "decode" /\ Decoded
  /\ Len(completion.v.choices) = 0
  /\ completion.v.usage.def
  /\ answer.v.response_metadata.choices_count = 0


\* the message of the encode call that returned or threw
Encoding == op = "encode" /\ Len(messages) = 1
IsTextPart(p) == p.type = "text" /\ p.text.k = "string"
IsBase64Audio(p) == p.type = "audio" /\ p.source_type = "base64" /\ p.data.def

\* a user message whose parts are texts and base64 audio parts, one at least
AudioMessage ==
  /\ Encoding
  /\ messages[1].type = "human"
  /\ ~messages[1].content.isString
  /\ \A i \in 1..Len(messages[1].content.parts) :
       IsTextPart(messages[1].content.parts[i]) \/ IsBase64Audio(messages[1].content.parts[i])
  /\ \E i \in 1..Len(messages[1].content.parts) : IsBase64Audio(messages[1].content.parts[i])

\* the format the claim gives a base64 audio part: "" where it gives none
ClaimedFormat(p) ==
  IF ~p.data.v.mime.def \/ ~p.data.v.mime.v.valid THEN ""
  ELSE IF toLowerCase(p.data.v.mime.v.subtype) \in {<<"m", "p", "e", "g">>, <<"m", "p", "3">>}
  THEN "mp3"
  ELSE IF toLowerCase(p.data.v.mime.v.subtype) \in {<<"w", "a", "v">>, <<"x", "-", "w", "a", "v">>}
  THEN "wav"
  ELSE ""

\* C6: a user message with base64 audio parts encodes exactly when the
\* lower-cased subtype of each is mpeg, mp3, wav or x-wav; mpeg and mp3 give an
\* input_audio part of format mp3, wav and x-wav of format wav, in the part's
\* place; any other subtype or an unparseable data URL fails the whole message
\* with the audio part error.
C6_AudioFormat ==
  AudioMessage
    => /\ wire.status = "ok"
            <=> \A i \in 1..Len(messages[1].content.parts) :
                  IsBase64Audio(messages[1].content.parts[i])
                    => ClaimedFormat(messages[1].content.parts[i]) # ""
       /\ wire.status = "ok"
            => /\ wire.val.role = "user"
               /\ Len(wire.val.content.parts) = Len(messages[1].content.parts)
               /\ \A i \in 1..Len(messages[1].content.parts) :
                    IsBase64Audio(messages[1].content.parts[i])
                      => /\ wire.val.content.parts[i].type = "input_audio"
                         /\ wire.val.content.parts[i].format
                              = ClaimedFormat(messages[1].content.parts[i])
                         /\ wire.val.content.parts[i].data
                              = messages[1].content.parts[i].data.v.raw
       /\ wire.status # "ok"
            => /\ wire.status = "error"
               /\ wire.error = "Unsupported audio content part"
               /\ wire.val = <<>>

C6_Witness ==
  /\ AudioMessage
  /\ Len(messages[1].content.parts) = 2
  /\ IsTextPart(messages[1].content.parts[1])
  /\ IsBase64Audio(messages[1].content.parts[2])
  /\ messages[1].content.parts[2].data.v.mime.v.subtype = <<"X", "-", "W", "a", "v">>
  /\ wire.status = "ok"
  /\ wire.val.content.parts[2].format = "wav"

\* what the encoder gives for the i-th message of the running _generate call
EncodedMessage(i) == baseMessageToChatCompletionRequestMessage(messages[i])
FailsToEncode(i) == ~EncodedMessage(i).ok

\* C7: in _generate, if any message of the batch fails to encode the call
\* fails and the transport is not invoked; the transport is awaited only with
\* a request sent, whose messages are the encodings of all the input
\* messages, in their order.
C7_BatchAbort ==
  op = "_generate"
    => /\ (\E i \in 1..Len(messages) : FailsToEncode(i))
            => /\ ~request.sent
               /\ pc = "idle"
               /\ generated.status = "error"
               /\ \E i \in 1..Len(messages) :
                    /\ FailsToEncode(i)
                    /\ generated.error = EncodedMessage(i).error
                    /\ \A j \in 1..(i - 1) : ~FailsToEncode(j)
       /\ pc = "transport" => request.sent
       /\ request.sent
            => /\ Len(request.messages) = Len(messages)
               /\ \A i \in 1..Len(messages) :
                    ~FailsToEncode(i) /\ request.messages[i] = EncodedMessage(i).val

C7_Witness ==
  /\ op = "_generate"
  /\ Len(messages) = 2
  /\ ~FailsToEncode(1)
  /\ FailsToEncode(2)
  /\ ~request.sent
  /\ generated.status = "error"

\* C8: the request _generate hands to the transport has stream false,
\* whatever the constructor parameters, the call's parameters and
\* disableStreaming are.
C8_NonStreaming == request.sent => request.params.stream = "false"

C8_Witness ==
  /\ request.sent
  /\ ~this.disableStreaming
  /\ options.def
  /\ options.v.chat_completion_create_params.def
  /\ options.v.chat_completion_create_params.v.stream = "true"
  /\ options.v.chat_completion_create_params.v.stream_options = "include_usage"
  /\ invocation.v.chat_completion_create_params.stream = "true"
  /\ request.params.stream = "false"

\* the text is JSON for an object with a numeric confidence and a string output
WellFormedEnvelope ==
  /\ JSONparse(text).ok
  /\ JSONparse(text).val.k = "object"
  /\ HasKey(JSONparse(text).val, KeyConfidence)
  /\ Get(JSONparse(text).val, KeyConfidence).k = "number"
  /\ HasKey(JSONparse(text).val, KeyOutput)
  /\ Get(JSONparse(text).val, KeyOutput).k = "string"

\* C9: with every parser, a text that is not a well-formed envelope fails
\* with the format error and no validation is invoked; a validation that
\* fails makes parse fail with the validation error; a result is returned
\* only when both steps succeeded, with the confidence of the envelope.
C9_FailHard ==
  op = "parse"
    => /\ ~WellFormedEnvelope
            => /\ pc = "idle"
               /\ parsed.status = "error"
               /\ parsed.error = "format"
               /\ validations = 0
               /\ validation = "none"
       /\ validation = "rejected"
            => parsed.status = "error" /\ parsed.error = "validation"
       /\ pc = "validating" => parsed.status = "pending"
       /\ parsed.status = "ok"
            => /\ pc = "idle"
               /\ WellFormedEnvelope
               /\ Validating(parser) => validation = "resolved" /\ validations = 1
               /\ parsed.confidence = Get(JSONparse(text).val, KeyConfidence).n

C9_Witness ==
  /\ ParseDone
  /\ parser = "custom"
  /\ WellFormedEnvelope
  /\ validations = 1
  /\ validation = "rejected"
  /\ parsed.status = "error"
  /\ parsed.error = "validation"

\* the effective role: the literal type, or the label of a generic message
EffectiveRole == IF messages[1].type = "generic" THEN messages[1].role ELSE messages[1].type

\* the wire role the claim gives an effective role: "" where it gives none
ClaimedRole(r) ==
  CASE r \in {"human", "user"} -> "user"
    [] r \in {"ai", "assistant"} -> "assistant"
    [] r = "developer" -> "developer"
    [] r = "system" -> "system"
    [] r = "tool" -> "tool"
    [] OTHER -> ""

\* the outcome of the encode call for a message whose role is supported or not
RoleOutcome(supported) ==
  IF supported
  THEN /\ wire.error # "Unsupported message"
       /\ wire.status = "ok" => wire.val.role = ClaimedRole(EffectiveRole)
  ELSE /\ wire.status = "error"
       /\ wire.error = "Unsupported message"
       /\ wire.val = <<>>

\* C10 as stated: human and user give the wire role user, ai and assistant
\* give assistant, developer, system and tool give themselves, and every
\* other effective role fails with the unsupported-message error.
C10_RoleResolution == Encoding => RoleOutcome(ClaimedRole(EffectiveRole) # "")

\* C10: as above, but tool gives the wire role tool only for a message whose
\* literal type is tool; the label tool on a generic message fails with the
\* unsupported-message error, like every other role.
C10_RoleResolutionAmended ==
  Encoding
    => RoleOutcome(/\ ClaimedRole(EffectiveRole) # ""
                   /\ EffectiveRole = "tool" => messages[1].type = "tool")

C10_Witness ==
  /\ Encoding
  /\ messages[1].type = "generic"
  /\ messages[1].role = "tool"
  /\ wire.status = "error"
  /\ wire.error = "Unsupported message"

\* a message whose effective role is assistant, system, developer or tool
SimpleRoleMessage ==
  Encoding /\ ClaimedRole(EffectiveRole) \in {"assistant", "system", "developer", "tool"}
ListContent == ~messages[1].content.isString
AllTextParts ==
  \A i \in 1..Len(messages[1].content.parts) : IsTextPart(messages[1].content.parts[i])

\* the wire content holds the texts of the message's parts, as many, in order
SameTexts ==
  /\ ~wire.val.content.isString
  /\ Len(wire.val.content.parts) = Len(messages[1].content.parts)
  /\ \A i \in 1..Len(messages[1].content.parts) :
       /\ wire.val.content.parts[i].type = "text"
       /\ wire.val.content.parts[i].text = messages[1].content.parts[i].text.s

\* a tool call the encoder can put on the wire: a string name, a string id and
\* arguments that are an object JSON.stringify accepts
EncodableToolCall(tc) ==
  /\ tc.name.def
  /\ tc.id.def
  /\ tc.args.k \in {"object", "array"}
  /\ Stringifiable(tc.args)

\* nothing but the content stands in the way of the encoding: the tool calls
\* of an AI message can be encoded, and the role tool is that of a tool message
OnlyContentCanFail ==
  /\ (messages[1].type = "ai" /\ messages[1].tool_calls.def)
       => \A i \in 1..Len(messages[1].tool_calls.v) :
            EncodableToolCall(messages[1].tool_calls.v[i])
  /\ EffectiveRole = "tool" => messages[1].type = "tool"

\* C11 as stated: a message of role assistant, system, developer or tool with
\* a list of parts encodes if and only if every part is a text part with a
\* string text, and then the wire content holds the same texts in the same
\* order; a part of another kind fails the message; a string content is
\* passed through unchanged.
C11_TextOnly ==
  SimpleRoleMessage
    => /\ ListContent
            => /\ wire.status = "ok" <=> AllTextParts
               /\ wire.status = "ok" => SameTexts
               /\ ~AllTextParts => wire.status = "error" /\ wire.val = <<>>
       /\ (~ListContent /\ wire.status = "ok") => wire.val.content = messages[1].content

\* C11: as above, where the encoding succeeds if and only if every part is a
\* text part and nothing but the content stands in the way: an AI message
\* whose tool calls cannot be encoded, and a generic message labelled tool,
\* fail though every part is a text.
C11_TextOnlyAmended ==
  SimpleRoleMessage
    => /\ ListContent
            => /\ wire.status = "ok" <=> (AllTextParts /\ OnlyContentCanFail)
               /\ wire.status = "ok" => SameTexts
               /\ ~AllTextParts
                    => /\ wire.status = "error"
                       /\ wire.val = <<>>
                       /\ wire.error = IF EffectiveRole = "tool" /\ messages[1].type # "tool"
                                       THEN "Unsupported message"
                                       ELSE "Unsupported Non-Human content part"
       /\ (~ListContent /\ wire.status = "ok") => wire.val.content = messages[1].content

C11_Witness ==
  /\ SimpleRoleMessage
  /\ messages[1].type = "system"
  /\ ListContent
  /\ Len(messages[1].content.parts) = 2
  /\ IsTextPart(messages[1].content.parts[1])
  /\ messages[1].content.parts[2].type = "audio"
  /\ wire.status = "error"
  /\ wire.error = "Unsupported Non-Human content part"

\* an encode call for a message whose effective role is assistant
AssistantMessage == Encoding /\ ClaimedRole(EffectiveRole) = "assistant"
\* the tool calls of the message encoded last
MessageCalls == OrElse(messages[1].tool_calls, <<>>)
\* tool calls {id, name, args} whose args are a string-keyed mapping
MappingCalls ==
  \A i \in 1..Len(MessageCalls) :
    /\ MessageCalls[i].name.def
    /\ MessageCalls[i].id.def
    /\ MessageCalls[i].args.k = "object"
ContentEncodes == messages[1].content.isString \/ AllTextParts

RECURSIVE JSONCarried(_)
\* what JSON carries of a value: a member whose value is undefined is left
\* out, an element that is undefined becomes null
JSONCarried(v) ==
  CASE v.k = "object" ->
         LET kept == SelectSeq([i \in 1..Len(v.keys) |-> i],
                               LAMBDA i : v.items[i].k # "undefined")
         IN ObjV([j \in 1..Len(kept) |-> v.keys[kept[j]]],
                 [j \in 1..Len(kept) |-> JSONCarried(v.items[kept[j]])])
    [] v.k = "array" ->
         ArrV([i \in 1..Len(v.items) |->
                 IF v.items[i].k = "undefined" THEN Null ELSE JSONCarried(v.items[i])])
    [] OTHER -> v

\* the wire tool calls are those of the message, as many, in order
SameWireCalls ==
  /\ wire.val.tool_calls.def
  /\ Len(wire.val.tool_calls.v) = Len(MessageCalls)
  /\ \A i \in 1..Len(MessageCalls) :
       /\ wire.val.tool_calls.v[i].type = "function"
       /\ wire.val.tool_calls.v[i].id = MessageCalls[i].id.v
       /\ wire.val.tool_calls.v[i].function.name = MessageCalls[i].name.v
       /\ JSONparse(wire.val.tool_calls.v[i].function.arguments).ok

\* decode returned every call of the message as a valid ToolCall, in order,
\* none as an InvalidToolCall; same tells the args decoded for the args sent
AllDecoded(same(_, _)) ==
  /\ Len(Bucket(answer.v.tool_calls)) = Len(MessageCalls)
  /\ Bucket(answer.v.invalid_tool_calls) = <<>>
  /\ \A i \in 1..Len(MessageCalls) :
       /\ Bucket(answer.v.tool_calls)[i].type = "tool_call"
       /\ Bucket(answer.v.tool_calls)[i].id = MessageCalls[i].id.v
       /\ Bucket(answer.v.tool_calls)[i].name = MessageCalls[i].name.v
       /\ same(Bucket(answer.v.tool_calls)[i].args, MessageCalls[i].args)

SameArgs(out, in) == out = in
CarriedArgs(out, in) == out = JSONCarried(in)

\* C12 as stated: an assistant message with a non-empty list of tool calls
\* {id, name, args} encodes to as many wire tool calls in the same order;
\* decoding those as the tool calls of the winning choice returns them all as
\* valid ToolCalls with the same id, name and args; an absent or empty list
\* gives no tool_calls on the wire.
C12_ToolCallRoundTrip ==
  /\ (AssistantMessage /\ ContentEncodes /\ MappingCalls)
       => /\ wire.status = "ok"
          /\ Len(MessageCalls) > 0 => SameWireCalls
          /\ Len(MessageCalls) = 0 => ~wire.val.tool_calls.def
  /\ (op = "decodeEcho" /\ MappingCalls) => AllDecoded(SameArgs)

\* C12: as above, for tool calls whose args JSON.stringify accepts (a
\* reference cycle fails the whole message with the serialization error);
\* the args decoded are the args sent as JSON carries them, without the
\* members whose value is undefined.
C12_ToolCallRoundTripAmended ==
  /\ (AssistantMessage /\ ContentEncodes /\ MappingCalls)
       => /\ wire.status = "ok"
               <=> \A i \in 1..Len(MessageCalls) : Stringifiable(MessageCalls[i].args)
          /\ wire.status = "ok"
               => /\ Len(MessageCalls) > 0 => SameWireCalls
                  /\ Len(MessageCalls) = 0 => ~wire.val.tool_calls.def
          /\ wire.status # "ok"
               => /\ wire.error = "Failed to serialize tool call args"
                  /\ wire.val = <<>>
  /\ (op = "decodeEcho" /\ MappingCalls) => AllDecoded(CarriedArgs)

C12_Witness ==
  /\ op = "decodeEcho"
  /\ MappingCalls
  /\ Len(MessageCalls) = 2
  /\ MessageCalls[1].args # MessageCalls[2].args
  /\ MessageCalls[1].args = JSONCarried(MessageCalls[1].args)
  /\ MessageCalls[1].args # ObjV(<<>>, <<>>)
  /\ Len(Bucket(answer.v.tool_calls)) = 2
  /\ Bucket(answer.v.tool_calls)[1].args = MessageCalls[1].args

\* C13: every ToolCall in the valid bucket of a decoded response has args
\* that are a string-keyed mapping, and a tool call of the winning choice
\* whose arguments are valid JSON of another kind is not among them.
C13_ValidArgsMapping ==
  (Decoded /\ Len(completion.v.choices) >= 1)
    => /\ \A i \in 1..Len(Bucket(answer.v.tool_calls)) :
            Bucket(answer.v.tool_calls)[i].args.k = "object"
       /\ \A i \in 1..Len(WinnerToolCalls) :
            (/\ ArgumentsParse(WinnerToolCalls[i])
             /\ JSONparse(WinnerToolCalls[i].function.arguments).val.k # "object")
              => \A j \in 1..Len(Bucket(answer.v.tool_calls)) :
                   Bucket(answer.v.tool_calls)[j].id # WinnerToolCalls[i].id

\* invocationParams has returned, on its own or within _generate
InvocationDone == op \in {"invocationParams", "_generate"} /\ invocation.def
ParamKeys == {"model", "stream", "stream_options", "temperature"}

\* what the call gives for a key: "absent" where it gives no parameters
CallValue(key) ==
  IF options.def /\ options.v.chat_completion_create_params.def
  THEN options.v.chat_completion_create_params.v[key]
  ELSE "absent"

\* the value the claim gives a key of the returned parameters
ClaimedValue(key) ==
  IF CallValue(key) \notin {"absent", "undefined"}
  THEN CallValue(key)
  ELSE this.chat_completion_create_params[key]

\* the same, with stream and stream_options as disableStreaming sets them
ClaimedValueAmended(key) ==
  IF this.disableStreaming /\ key = "stream" THEN "false"
  ELSE IF this.disableStreaming /\ key = "stream_options" THEN "undefined"
  ELSE ClaimedValue(key)

\* C14 as stated: no call changes the object, and the parameters
\* invocationParams returns hold, for every key, the call's value where the
\* call gives one other than undefined (null included) and the constructor's
\* value otherwise.
C14_OverrideIsLocal ==
  /\ [][this' = this]_vars
  /\ [](InvocationDone
          => \A key \in ParamKeys :
               invocation.v.chat_completion_create_params[key] = ClaimedValue(key))

\* C14: as above, except that on a model with disableStreaming set the
\* returned stream is false and the returned stream_options undefined,
\* whatever the call and the constructor gave for them.
C14_OverrideIsLocalAmended ==
  /\ [][this' = this]_vars
  /\ [](InvocationDone
          => \A key \in ParamKeys :
               invocation.v.chat_completion_create_params[key] = ClaimedValueAmended(key))

C14_Witness ==
  /\ op = "invocationParams"
  /\ InvocationDone
  /\ ~this.disableStreaming
  /\ this.chat_completion_create_params.temperature = "0.5"
  /\ this.chat_completion_create_params.stream = "false"
  /\ CallValue("temperature") = "null"
  /\ CallValue("stream") = "absent"
  /\ invocation.v.chat_completion_create_params.temperature = "null"
  /\ invocation.v.chat_completion_create_params.stream = "false"

=============================================================================
